---- MODULE Spec2Model ----
(***************************************************************************)
(* IoT gateway simulator (src/iot.py): the IoTGatewaySimulator object, the *)
(* thread that drives it (main() or a program that imports the class) and  *)
(* the broker client's background loop that delivers the connection        *)
(* callbacks.                                                              *)
(***************************************************************************)
EXTENDS Integers, Sequences, FiniteSets, TLC

\* ------------------------------------------------------------------ bounds
MaxSensors == 7          \* largest requested sensor count
MaxDuration == 4         \* largest configured duration, in seconds
MaxCalls == 3            \* API calls made by a program that imports the class
MaxOpenTicks == 2        \* ticks counted in a run that has no end time
TickInterval == 2        \* the positive interval the runs are given
MaxRoster == 10          \* largest roster built by the roster builder alone
UnitSteps == 4           \* random.uniform draws a + (b - a) * k / UnitSteps

\* ------------------------------------------------------- program constants
DefaultInterval == 5     \* --interval default
ZoneCount == 3           \* location = zone-{(i % 3) + 1}
DayStart == 6            \* 6 <= hour
DayEnd == 18             \* hour <= 18

SensorTypes ==
    << "temperature", "humidity", "voltage", "current", "power", "energy",
       "solar_irradiance", "wind_speed", "battery_level" >>

\* len(sensor_types)
CoreTypeCount == Len(SensorTypes)

SOLAR_IRRADIANCE == "solar_irradiance"

SensorTypeSet == { SensorTypes[i] : i \in 1..Len(SensorTypes) }

\* ------------------------------------------------------------------ inputs
\* How the module is entered: run as a script (the __main__ guard runs), main()
\* called by a program that imported the module, or the class driven directly.
Entries == { "script", "main", "api" }
GatewayIds == { "gw-test" }
SensorCounts == { 0, 3, MaxSensors }
Hours == 0..23
\* sensor["type"] values handed to _generate_sensor_reading: the SensorType
\* members and one value that is none of them
ReadingTypes == SensorTypeSet \cup { "pressure" }
\* random.random(): the fractions k / UnitSteps
Draws == 0..UnitSteps
\* --duration: absent (<<>>) or an int
Durations == { <<>> } \cup { << d >> : d \in 0..MaxDuration }
\* run(interval, duration): --interval is any int, and a negative one makes
\* time.sleep raise ValueError
RunArgs ==
    ({ TickInterval } \X Durations)
      \cup ({ -1 } \X { <<>>, << MaxDuration >> })
\* CONNACK result codes: 0 accepted, 5 not authorised
ResultCodes == { 0, 5 }
\* what client.publish does: rc MQTT_ERR_SUCCESS, another rc, or an exception
PublishOutcomes == { "success", "rc_error", "raises" }

VARIABLES
    entry,          \* how the module was entered
    gateway_id,     \* self.gateway_id
    num_sensors,    \* self.num_sensors
    sensors,        \* self.sensors
    reading,        \* what the last direct call of _generate_sensor_reading
                    \* produced, <<>> before the first one
    client,         \* self.client: "none" or "created"
    connected,      \* self.connected
    loop_running,   \* the client's background loop thread is alive
    session,        \* the client's connection: none, handshake (CONNECT sent
                    \* by connect()), refused (that handshake answered with
                    \* rc # 0), up, down (lost), rehandshake (opened again by
                    \* the loop), closed (by client.disconnect())
    leaked,         \* an earlier client's loop thread is still alive
    pc,             \* position of the driving thread
    caller,         \* who called publish_sensor_data / disconnect: run or api
    idx,            \* position of publish_sensor_data's for loop (1-based)
    ret,            \* value returned by the last connect / publish_sensor_data
    interval,       \* run's interval argument
    duration,       \* run's duration argument
    end_time,       \* run's end_time
    now,            \* time.time(), from the start of the run
    count,          \* run's count
    exc,            \* exception in flight in run: none, interrupt, error
    status,         \* main(): none, returned_0, returned_1, raised
    calls,          \* API calls made so far
    \* ---- observations of the execution
    tickConn,       \* the flag as read by the current tick's guard
    tickPubs,       \* topics handed to client.publish by the current tick
    tickState,      \* none, running, returned, raised, interrupted
    failAt,         \* index of the tick's first failed publish, 0 if none
    ticks,          \* elapsed times at which the run started its ticks
    runState,       \* none, running, returned, raised
    discInRun,      \* disconnect() calls made by the run
    discDone,       \* a disconnect() call has completed since the last connect()
    loopStops,      \* client.loop_stop() calls of the current operation
    sessDiscs,      \* client.disconnect() calls of the current operation
    intAt           \* where the interrupt was delivered

confVars == << entry, gateway_id, num_sensors, sensors, reading >>
transVars == << client, connected, loop_running, session, leaked >>
ctlVars == << pc, caller, idx, ret, status, calls >>
runVars == << interval, duration, end_time, now, count, exc >>
tickObs == << tickConn, tickPubs, tickState, failAt >>
runObs == << ticks, runState, discInRun, intAt >>
discObs == << discDone, loopStops, sessDiscs >>
vars ==
    << confVars, transVars, ctlVars, runVars, tickObs, runObs, discObs >>

\* ------------------------------------------------------- pure functions

\* f"sensor-{i+1}" for the 0-based index i
SensorId(i) == "sensor-" \o ToString(i + 1)

\* mutant of ZoneOf: the zone number is not shifted to start at 1
ZoneOf_FromZero(i) == "zone-" \o ToString(i % ZoneCount)

\* f"zone-{(i % 3) + 1}"
ZoneOf(i) == "zone-" \o ToString((i % ZoneCount) + 1)

\* _create_sensors: every roster the call can return (random.choice for i >= 9)
CreateSensors(requested) ==
    LET core == IF requested < CoreTypeCount THEN requested ELSE CoreTypeCount
        n == IF requested < 0 THEN 0 ELSE requested
    IN  { [ k \in 1..n |->
              [ id |-> SensorId(k - 1),
                type |-> IF k <= core THEN SensorTypes[k] ELSE extra[k],
                location |-> ZoneOf(k - 1) ] ]
          : extra \in [ (CoreTypeCount + 1)..n -> SensorTypeSet ] }

\* the module global math exists only when the __main__ guard ran
MathImported == entry = "script"

\* _generate_sensor_reading raises NameError: the solar branch in daytime
\* evaluates math.sin
ReadingRaises(sensor, hour) ==
    /\ sensor.type = SOLAR_IRRADIANCE
    /\ DayStart <= hour /\ hour <= DayEnd
    /\ ~MathImported

\* Reading values are fixed-point numbers, in thousandths of the unit.

\* random.uniform(a, b) = a + (b - a) * random.random()
Uniform(a, b, k) == a + ((b - a) * k) \div UnitSteps

\* round(x, decimals) for x >= 0: to the nearest multiple of 10^-decimals,
\* a tie to the even one
RoundTo(x, decimals) ==
    LET step == IF decimals = 3 THEN 1 ELSE IF decimals = 2 THEN 10 ELSE 100
        q == x \div step
        r == x % step
    IN  IF 2 * r > step \/ (2 * r = step /\ q % 2 = 1)
        THEN (q + 1) * step
        ELSE q * step

\* the arguments of random.uniform and of round in each branch of
\* _generate_sensor_reading but the solar one: << a, b, decimals >>
UniformRange(type) ==
    CASE type = "temperature" -> << 18000, 30000, 2 >>
      [] type = "humidity" -> << 30000, 70000, 2 >>
      [] type = "voltage" -> << 220000, 240000, 1 >>
      [] type = "current" -> << 500, 15000, 2 >>
      [] type = "power" -> << 100000, 5000000, 2 >>
      [] type = "energy" -> << 100, 50000, 3 >>
      [] type = "wind_speed" -> << 0, 15000, 2 >>
      [] type = "battery_level" -> << 20000, 95000, 1 >>
      [] OTHER -> << 0, 100000, 2 >>

\* mutant of UnitOf: every branch sets the unit of the generic branch
UnitOf_Generic(type) == "units"

\* reading["unit"] in each branch of _generate_sensor_reading
UnitOf(type) ==
    CASE type = "temperature" -> "°C"
      [] type = "humidity" -> "%"
      [] type = "voltage" -> "V"
      [] type = "current" -> "A"
      [] type = "power" -> "W"
      [] type = "energy" -> "kWh"
      [] type = SOLAR_IRRADIANCE -> "W/m²"
      [] type = "wind_speed" -> "m/s"
      [] type = "battery_level" -> "%"
      [] OTHER -> "units"

\* 600 * math.sin(math.pi * k / 12) for k = 0..12, to three decimals
SineCurve ==
    << 0, 155291, 300000, 424264, 519615, 579555, 600000,
       579555, 519615, 424264, 300000, 155291, 0 >>

\* base = 600 * math.sin(math.pi * (hour - 6) / 12)
SolarBase(hour) == SineCurve[(hour - DayStart) + 1]

\* mutant of Clamp: the sum of base and noise is not clamped
Clamp_Absent(x) == x

\* max(0, x)
Clamp(x) == IF x < 0 THEN 0 ELSE x

\* the value of the solar branch: 0.0 at night, the clamped and rounded sum of
\* base and noise in daytime
SolarValue(hour, k) ==
    IF DayStart <= hour /\ hour <= DayEnd
    THEN RoundTo(Clamp(SolarBase(hour) + Uniform(-50000, 50000, k)), 2)
    ELSE 0

\* _generate_sensor_reading(sensor) at the given hour of the day with the
\* given draw of random.random(): the reading returned, or the call raising.
\* The hour is read by the solar branch only.
GenerateSensorReading(sensor, hour, k) ==
    LET solar == sensor.type = SOLAR_IRRADIANCE
        range == UniformRange(sensor.type)
    IN  [ type |-> sensor.type,
          hour |-> IF solar THEN << hour >> ELSE << >>,
          raised |-> ReadingRaises(sensor, hour),
          value |-> IF ReadingRaises(sensor, hour) THEN 0
                    ELSE IF solar THEN SolarValue(hour, k)
                    ELSE RoundTo(Uniform(range[1], range[2], k), range[3]),
          unit |-> IF ReadingRaises(sensor, hour) THEN ""
                   ELSE UnitOf(sensor.type) ]

\* f"iot/gateway/{self.gateway_id}/sensors/{sensor['type']}/{sensor['id']}"
Topic(gw, sensor) ==
    "iot/gateway/" \o gw \o "/sensors/" \o sensor.type \o "/" \o sensor.id

\* `if duration:` -- None and 0 are both falsy
DurationSet(d) == d # <<>> /\ d[1] # 0

\* disconnect's guard: `if self.client and self.connected`
DisconnectGuard == client = "created" /\ connected

\* mutant of NotConnected: the tick does not look at the flag
NotConnected_Unguarded == FALSE

\* publish_sensor_data's guard: `if not self.connected`
NotConnected == ~connected

Init ==
    /\ entry \in Entries
    /\ gateway_id \in GatewayIds
    /\ num_sensors \in SensorCounts
    /\ sensors \in CreateSensors(num_sensors)
    /\ reading = << >>
    /\ client = "none" /\ connected = FALSE /\ loop_running = FALSE
    /\ session = "none" /\ leaked = FALSE
    /\ pc = "idle" /\ caller = "api" /\ idx = 1 /\ ret = FALSE
    /\ status = "none" /\ calls = 0
    /\ interval = DefaultInterval /\ duration = <<>> /\ end_time = <<>>
    /\ now = 0 /\ count = 0 /\ exc = "none"
    /\ tickConn = FALSE /\ tickPubs = <<>> /\ tickState = "none" /\ failAt = 0
    /\ ticks = <<>> /\ runState = "none" /\ discInRun = 0
    /\ intAt = "none"
    /\ discDone = FALSE /\ loopStops = 0 /\ sessDiscs = 0


\* run's locals before a call of run, and the observations of the last
\* operation before the next one starts
FreshRunLocals ==
    /\ end_time' = <<>> /\ now' = 0 /\ count' = 0 /\ exc' = "none"

FreshTick(state) ==
    /\ tickConn' = FALSE /\ tickPubs' = <<>> /\ tickState' = state
    /\ failAt' = 0

FreshObservations ==
    /\ ticks' = <<>> /\ runState' = "none" /\ discInRun' = 0
    /\ intAt' = "none"
    /\ loopStops' = 0 /\ sessDiscs' = 0

\* ------------------------------------------------- the driving thread: connect

\* mutant of connect: a failed connect() drops the client handle
connect_DropsClientOnFailure ==
    /\ pc = "idle"
    /\ \/ entry = "api" /\ calls < MaxCalls
       \/ entry # "api" /\ client = "none" /\ status = "none"
    /\ leaked' = (leaked \/ loop_running)
    /\ \E ok \in BOOLEAN :
         /\ ret' = ok
         /\ loop_running' = ok
         /\ session' = IF ok THEN "handshake" ELSE "none"
         /\ client' = IF ok THEN "created" ELSE "none"
    /\ discDone' = FALSE
    /\ pc' = IF entry = "api" THEN "idle" ELSE "main_branch"
    /\ calls' = IF entry = "api" THEN calls + 1 ELSE calls
    /\ interval' = DefaultInterval /\ duration' = <<>>
    /\ FreshRunLocals /\ FreshObservations /\ FreshTick("none")
    /\ UNCHANGED << confVars, connected, caller, idx, status >>

\* connect(): create the client, register the callbacks, client.connect (which
\* may raise), client.loop_start()
connect ==
    /\ pc = "idle"
    /\ \/ entry = "api" /\ calls < MaxCalls
       \/ entry # "api" /\ client = "none" /\ status = "none"
    /\ client' = "created"
    /\ leaked' = (leaked \/ loop_running)
    /\ \E ok \in BOOLEAN :
         /\ ret' = ok
         /\ loop_running' = ok
         /\ session' = IF ok THEN "handshake" ELSE "none"
    /\ discDone' = FALSE
    /\ pc' = IF entry = "api" THEN "idle" ELSE "main_branch"
    /\ calls' = IF entry = "api" THEN calls + 1 ELSE calls
    /\ interval' = DefaultInterval /\ duration' = <<>>
    /\ FreshRunLocals /\ FreshObservations /\ FreshTick("none")
    /\ UNCHANGED << confVars, connected, caller, idx, status >>

\* main(): `else: ... return 1`
main_connect_failed ==
    /\ pc = "main_branch" /\ ~ret
    /\ status' = "returned_1"
    /\ pc' = "exited"
    /\ UNCHANGED << confVars, transVars, caller, idx, ret, calls, runVars,
                    tickObs, runObs, discObs >>

\* simulator.run(interval=..., duration=...): by main() after connect()
\* returned True, or by the importing program
call_run ==
    /\ \/ pc = "main_branch" /\ ret
       \/ pc = "idle" /\ entry = "api" /\ calls < MaxCalls
    /\ \E args \in RunArgs :
         /\ interval' = args[1]
         /\ duration' = args[2]
    /\ calls' = IF entry = "api" THEN calls + 1 ELSE calls
    /\ pc' = "run_start"
    /\ FreshRunLocals /\ FreshObservations /\ FreshTick("none")
    /\ UNCHANGED << confVars, transVars, caller, idx, ret, status, discDone >>

\* ------------------------------------------------------------------- run

\* run(): the lines before the loop
run_start ==
    /\ pc = "run_start"
    /\ now' = 0
    /\ end_time' = IF DurationSet(duration) THEN << duration[1] >> ELSE <<>>
    /\ count' = 0
    /\ exc' = "none"
    /\ ticks' = <<>> /\ runState' = "running"
    /\ discInRun' = 0 /\ intAt' = "none"
    /\ pc' = "run_loop_test"
    /\ UNCHANGED << confVars, transVars, caller, idx, ret, status, calls,
                    interval, duration, tickObs, discObs >>

\* `while end_time is None or time.time() < end_time`
LoopContinues == end_time = <<>> \/ now < end_time[1]

\* a run without end time goes on for ever: its ticks are recorded, and its
\* batches counted, up to MaxOpenTicks
OpenEnded == end_time = <<>>

run_loop_test ==
    /\ pc = "run_loop_test"
    /\ IF LoopContinues
         THEN /\ pc' = "publish_guard"
              /\ caller' = "run"
              /\ ticks' = IF OpenEnded /\ Len(ticks) >= MaxOpenTicks
                             THEN ticks ELSE Append(ticks, now)
              /\ FreshTick("called")
         ELSE /\ pc' = "run_finally"
              /\ UNCHANGED << caller, ticks, tickObs >>
    /\ UNCHANGED << confVars, transVars, idx, ret, status, calls, runVars,
                    runState, discInRun, intAt, discObs >>

\* `if self.publish_sensor_data(): count += 1`
run_count ==
    /\ pc = "publish_return" /\ caller = "run"
    /\ count' = IF ret /\ ~(OpenEnded /\ count >= MaxOpenTicks)
                  THEN count + 1 ELSE count
    /\ pc' = "run_sleep"
    /\ UNCHANGED << confVars, transVars, caller, idx, ret, status, calls,
                    interval, duration, end_time, now, exc, tickObs, runObs,
                    discObs >>

\* time.sleep(interval): ValueError for a negative interval. The clock is
\* the ideal one: a tick takes no time and a sleep lasts exactly interval;
\* it is followed only in a run that has an end time to compare it with.
run_sleep ==
    /\ pc = "run_sleep"
    /\ IF interval < 0
         THEN /\ exc' = "error"
              /\ pc' = "run_finally"
              /\ now' = now
         ELSE /\ now' = IF OpenEnded THEN now ELSE now + interval
              /\ pc' = "run_loop_test"
              /\ exc' = exc
    /\ UNCHANGED << confVars, transVars, caller, idx, ret, status, calls,
                    interval, duration, end_time, count, tickObs, ticks,
                    runState, discInRun, intAt, discObs >>

\* the positions of the driving thread inside run's try block
InRunLoop ==
    /\ runState = "running"
    /\ \/ pc \in { "run_loop_test", "run_sleep" }
       \/ pc \in { "publish_guard", "publish_sensor", "publish_return" }
            /\ caller = "run"

\* mutant of run_interrupt: no `except KeyboardInterrupt` clause, the
\* interrupt leaves run like any other exception
run_interrupt_Unhandled ==
    /\ InRunLoop
    /\ exc' = "error"
    /\ intAt' = IF pc \in { "publish_guard", "publish_sensor" } THEN "tick"
                 ELSE IF pc = "run_sleep" THEN "sleep" ELSE "between"
    /\ tickState' = IF pc = "publish_sensor" THEN "interrupted" ELSE tickState
    /\ pc' = "run_finally"
    /\ idx' = 1
    /\ UNCHANGED << confVars, transVars, caller, ret, status, calls,
                    interval, duration, end_time, now, count, tickConn,
                    tickPubs, failAt, ticks, runState, discInRun, discObs >>

\* KeyboardInterrupt inside the try block: `except KeyboardInterrupt`
run_interrupt ==
    /\ InRunLoop
    /\ exc' = "interrupt"
    /\ intAt' = IF pc \in { "publish_guard", "publish_sensor" } THEN "tick"
                 ELSE IF pc = "run_sleep" THEN "sleep" ELSE "between"
    /\ tickState' = IF pc = "publish_sensor" THEN "interrupted" ELSE tickState
    /\ pc' = "run_finally"
    /\ idx' = 1
    /\ UNCHANGED << confVars, transVars, caller, ret, status, calls,
                    interval, duration, end_time, now, count, tickConn,
                    tickPubs, failAt, ticks, runState, discInRun, discObs >>

\* mutant of run_finally: disconnect() is called after the loop, not in a
\* finally clause, so an exception skips it
run_finally_NormalExitOnly ==
    /\ pc = "run_finally"
    /\ caller' = "run"
    /\ discInRun' = IF exc = "none" THEN discInRun + 1 ELSE discInRun
    /\ pc' = IF exc = "none" THEN "disconnect_guard" ELSE "disconnect_return"
    /\ UNCHANGED << confVars, transVars, idx, ret, status, calls, runVars,
                    tickObs, ticks, runState, intAt, discObs >>

\* `finally: self.disconnect()`
run_finally ==
    /\ pc = "run_finally"
    /\ caller' = "run"
    /\ discInRun' = discInRun + 1
    /\ pc' = "disconnect_guard"
    /\ UNCHANGED << confVars, transVars, idx, ret, status, calls, runVars,
                    tickObs, ticks, runState, intAt, discObs >>

\* run() is left: normally, or by the error the loop raised; main() then
\* returns 0 or dies of the error
run_exit ==
    /\ pc = "disconnect_return" /\ caller = "run"
    /\ runState' = IF exc = "error" THEN "raised" ELSE "returned"
    /\ discDone' = TRUE
    /\ IF entry = "api"
         THEN pc' = "idle" /\ status' = status
         ELSE /\ pc' = "exited"
              /\ status' = IF exc = "error" THEN "raised" ELSE "returned_0"
    /\ caller' = "api"
    /\ UNCHANGED << confVars, transVars, idx, ret, calls, runVars, tickObs,
                    ticks, discInRun, intAt, loopStops, sessDiscs >>

\* ------------------------------------------------------ publish_sensor_data

\* the importing program calls publish_sensor_data()
call_publish ==
    /\ pc = "idle" /\ entry = "api" /\ calls < MaxCalls
    /\ calls' = calls + 1
    /\ caller' = "api"
    /\ pc' = "publish_guard"
    /\ interval' = DefaultInterval /\ duration' = <<>>
    /\ FreshRunLocals /\ FreshObservations /\ FreshTick("called")
    /\ UNCHANGED << confVars, transVars, idx, ret, status, discDone >>

\* `if not self.connected: ... return False`, else enter the for loop
publish_guard ==
    /\ pc = "publish_guard"
    /\ tickConn' = connected
    /\ UNCHANGED << tickPubs, failAt >>
    /\ IF NotConnected
         THEN /\ ret' = FALSE
              /\ tickState' = "returned"
              /\ pc' = "publish_return"
              /\ idx' = idx
         ELSE /\ idx' = 1
              /\ tickState' = "running"
              /\ pc' = "publish_sensor"
              /\ ret' = ret
    /\ UNCHANGED << confVars, transVars, caller, status, calls, runVars,
                    runObs, discObs >>

\* an exception leaves publish_sensor_data: into run's try block, or to the
\* importing program
TickRaises ==
    /\ tickState' = "raised"
    /\ IF caller = "run"
         THEN exc' = "error" /\ pc' = "run_finally"
         ELSE exc' = exc /\ pc' = "idle"
    /\ idx' = 1
    /\ UNCHANGED << tickPubs, failAt, ret >>

\* mutant of PublishOne: no try/except around client.publish, an exception
\* of the client leaves the tick
PublishOne_Uncaught(outcome) ==
    /\ tickPubs' = Append(tickPubs, Topic(gateway_id, sensors[idx]))
    /\ failAt' = IF outcome # "success" /\ failAt = 0 THEN idx ELSE failAt
    /\ ret' = ret
    /\ IF outcome = "raises"
         THEN /\ idx' = 1
              /\ tickState' = "raised"
              /\ IF caller = "run"
                   THEN exc' = "error" /\ pc' = "run_finally"
                   ELSE exc' = exc /\ pc' = "idle"
         ELSE /\ idx' = idx + 1
              /\ pc' = "publish_sensor"
              /\ UNCHANGED << tickState, exc >>

\* client.publish(topic, payload, qos=1) with the given outcome: a result
\* code that is not success is logged, an Exception is caught and logged
PublishOne(outcome) ==
    /\ tickPubs' = Append(tickPubs, Topic(gateway_id, sensors[idx]))
    /\ failAt' = IF outcome # "success" /\ failAt = 0 THEN idx ELSE failAt
    /\ idx' = idx + 1
    /\ pc' = "publish_sensor"
    /\ UNCHANGED << tickState, exc, ret >>

\* one pass of `for sensor in self.sensors`: the reading, the message, the
\* topic, the publish
publish_sensor ==
    /\ pc = "publish_sensor" /\ idx <= Len(sensors)
    /\ \E hour \in Hours :
         IF ReadingRaises(sensors[idx], hour)
           THEN TickRaises
           ELSE \E outcome \in PublishOutcomes :
                  /\ client = "none" => outcome = "raises"
                  /\ PublishOne(outcome)
    /\ UNCHANGED << confVars, transVars, caller, status, calls, interval,
                    duration, end_time, now, count, tickConn, runObs, discObs >>

\* mutant of publish_done: the tick consumes the roster it went through
publish_done_ConsumesRoster ==
    /\ pc = "publish_sensor" /\ idx > Len(sensors)
    /\ ret' = TRUE
    /\ idx' = 1
    /\ tickState' = "returned"
    /\ pc' = "publish_return"
    /\ sensors' = << >>
    /\ UNCHANGED << entry, gateway_id, num_sensors, reading, transVars, caller,
                    status, calls, runVars, tickConn, tickPubs, failAt, runObs,
                    discObs >>

\* the for loop is exhausted: `return True`
publish_done ==
    /\ pc = "publish_sensor" /\ idx > Len(sensors)
    /\ ret' = TRUE
    /\ idx' = 1
    /\ tickState' = "returned"
    /\ pc' = "publish_return"
    /\ UNCHANGED << confVars, transVars, caller, status, calls, runVars,
                    tickConn, tickPubs, failAt, runObs, discObs >>

\* publish_sensor_data returns to the importing program
publish_return ==
    /\ pc = "publish_return" /\ caller = "api"
    /\ pc' = "idle"
    /\ UNCHANGED << confVars, transVars, caller, idx, ret, status, calls,
                    runVars, tickObs, runObs, discObs >>

\* --------------------------------------------------------------- disconnect

\* the importing program calls disconnect()
call_disconnect ==
    /\ pc = "idle" /\ entry = "api" /\ calls < MaxCalls
    /\ calls' = calls + 1
    /\ caller' = "api"
    /\ pc' = "disconnect_guard"
    /\ interval' = DefaultInterval /\ duration' = <<>>
    /\ FreshRunLocals /\ FreshObservations /\ FreshTick("none")
    /\ UNCHANGED << confVars, transVars, idx, ret, status, discDone >>

\* `if self.client and self.connected:`
disconnect_guard ==
    /\ pc = "disconnect_guard"
    /\ pc' = IF DisconnectGuard THEN "disconnect_loop_stop" ELSE "disconnect_return"
    /\ UNCHANGED << confVars, transVars, caller, idx, ret, status, calls,
                    runVars, tickObs, runObs, discObs >>

\* self.client.loop_stop(): the background thread is joined
disconnect_loop_stop ==
    /\ pc = "disconnect_loop_stop"
    /\ loop_running' = FALSE
    /\ loopStops' = loopStops + 1
    /\ pc' = "disconnect_session"
    /\ UNCHANGED << confVars, client, connected, session, leaked, caller, idx,
                    ret, status, calls, runVars, tickObs, runObs, discDone,
                    sessDiscs >>

\* self.client.disconnect(): with a socket open the client writes DISCONNECT
\* and calls on_disconnect with rc 0 before it returns
disconnect_session ==
    /\ pc = "disconnect_session"
    /\ sessDiscs' = sessDiscs + 1
    /\ IF session \in { "handshake", "rehandshake", "up", "refused" }
         THEN session' = "closed" /\ connected' = FALSE
         ELSE UNCHANGED << session, connected >>
    /\ pc' = "disconnect_return"
    /\ UNCHANGED << confVars, client, loop_running, leaked, caller, idx, ret,
                    status, calls, runVars, tickObs, runObs, discDone,
                    loopStops >>

\* disconnect() returns to the importing program
disconnect_return ==
    /\ pc = "disconnect_return" /\ caller = "api"
    /\ discDone' = TRUE
    /\ pc' = "idle"
    /\ UNCHANGED << confVars, transVars, caller, idx, ret, status, calls,
                    runVars, tickObs, runObs, loopStops, sessDiscs >>

\* ------------------------------------------- the client's background thread

\* mutant of on_connect: the flag is set whatever the result code
on_connect_AnyResult ==
    /\ loop_running /\ session \in { "handshake", "rehandshake" }
    /\ \E rc \in ResultCodes :
         /\ connected' = TRUE
         /\ session' = IF rc = 0 THEN "up"
                        ELSE IF session = "handshake" THEN "refused" ELSE "down"
    /\ UNCHANGED << confVars, client, loop_running, leaked, ctlVars, runVars,
                    tickObs, runObs, discObs >>

\* _on_connect(client, userdata, flags, rc): the broker's CONNACK
on_connect ==
    /\ loop_running /\ session \in { "handshake", "rehandshake" }
    /\ \E rc \in ResultCodes :
         /\ connected' = IF rc = 0 THEN TRUE ELSE connected
         /\ session' = IF rc = 0 THEN "up"
                        ELSE IF session = "handshake" THEN "refused" ELSE "down"
    /\ UNCHANGED << confVars, client, loop_running, leaked, ctlVars, runVars,
                    tickObs, runObs, discObs >>

\* mutant of on_disconnect: the callback leaves the flag as it is
on_disconnect_KeepsFlag ==
    /\ loop_running /\ session \in { "handshake", "rehandshake", "up", "refused" }
    /\ session' = "down"
    /\ UNCHANGED << confVars, client, connected, loop_running, leaked, ctlVars,
                    runVars, tickObs, runObs, discObs >>

\* _on_disconnect(client, userdata, rc) with rc # 0: the connection is lost
on_disconnect ==
    /\ loop_running /\ session \in { "handshake", "rehandshake", "up", "refused" }
    /\ connected' = FALSE
    /\ session' = "down"
    /\ UNCHANGED << confVars, client, loop_running, leaked, ctlVars, runVars,
                    tickObs, runObs, discObs >>

\* the background loop opens the connection again after a loss
loop_reconnect ==
    /\ loop_running /\ session = "down"
    /\ session' = "rehandshake"
    /\ UNCHANGED << confVars, client, connected, loop_running, leaked, ctlVars,
                    runVars, tickObs, runObs, discObs >>

\* the loop thread of a client that connect() replaced still calls
\* _on_connect / _on_disconnect of this simulator
leaked_callback ==
    /\ leaked
    /\ connected' = ~connected
    /\ UNCHANGED << confVars, client, loop_running, session, leaked, ctlVars,
                    runVars, tickObs, runObs, discObs >>

\* ------------------------------------------------------------ specification

DrivingThread ==
    \/ connect \/ main_connect_failed \/ call_run
    \/ run_start \/ run_loop_test \/ run_count \/ run_sleep
    \/ run_finally \/ run_exit
    \/ call_publish \/ publish_guard \/ publish_sensor \/ publish_done
    \/ publish_return
    \/ call_disconnect \/ disconnect_guard \/ disconnect_loop_stop
    \/ disconnect_session \/ disconnect_return

Transport ==
    \/ on_connect \/ on_disconnect \/ loop_reconnect \/ leaked_callback

Next == DrivingThread \/ run_interrupt \/ Transport

Spec == Init /\ [][Next]_vars

\* the interpreter keeps running the driving thread
FairSpec == Spec /\ WF_vars(DrivingThread)

\* ------------------------------- the roster builder and the reading generator
\* A program that imports the class (or the script itself) constructs
\* simulators and calls _generate_sensor_reading directly, at any hour of the
\* day, without ever connecting.

RosterCounts == 0..MaxRoster

DirectInit ==
    /\ entry \in Entries
    /\ gateway_id \in GatewayIds
    /\ num_sensors \in SensorCounts
    /\ sensors \in CreateSensors(num_sensors)
    /\ reading = << >>
    /\ client = "none" /\ connected = FALSE /\ loop_running = FALSE
    /\ session = "none" /\ leaked = FALSE
    /\ pc = "idle" /\ caller = "api" /\ idx = 1 /\ ret = FALSE
    /\ status = "none" /\ calls = 0
    /\ interval = DefaultInterval /\ duration = <<>> /\ end_time = <<>>
    /\ now = 0 /\ count = 0 /\ exc = "none"
    /\ tickConn = FALSE /\ tickPubs = <<>> /\ tickState = "none" /\ failAt = 0
    /\ ticks = <<>> /\ runState = "none" /\ discInRun = 0
    /\ intAt = "none"
    /\ discDone = FALSE /\ loopStops = 0 /\ sessDiscs = 0

\* IoTGatewaySimulator(gateway_id, num_sensors): __init__ builds the roster
create_sensors ==
    /\ \E n \in RosterCounts :
         /\ num_sensors' = n
         /\ sensors' \in CreateSensors(n)
    /\ reading' = << >>
    /\ UNCHANGED << entry, gateway_id, transVars, ctlVars, runVars, tickObs,
                    runObs, discObs >>

\* _generate_sensor_reading(sensor) for a sensor of any type; datetime.now()
\* is read by the solar branch only
generate_sensor_reading ==
    /\ \E type \in ReadingTypes, k \in Draws :
         \E hour \in IF type = SOLAR_IRRADIANCE THEN Hours ELSE { 0 } :
           reading' = GenerateSensorReading(
                          [ id |-> SensorId(0), type |-> type,
                            location |-> ZoneOf(0) ], hour, k)
    /\ UNCHANGED << entry, gateway_id, num_sensors, sensors, transVars,
                    ctlVars, runVars, tickObs, runObs, discObs >>

DirectNext == create_sensors \/ generate_sensor_reading

DirectSpec == DirectInit /\ [][DirectNext]_vars

\* ==================================================================== claims

\* the topics one tick over the whole roster publishes, in roster order
RosterTopics == [ i \in 1..Len(sensors) |-> Topic(gateway_id, sensors[i]) ]

IsPrefix(p, q) == Len(p) <= Len(q) /\ \A i \in 1..Len(p) : p[i] = q[i]

\* the guard of the tick has been evaluated
TickGuarded == tickState \in { "running", "returned", "raised", "interrupted" }

\* C1: a publish tick whose guard reads the connected flag as false returns
\* False and hands nothing to client.publish, whatever happened to the
\* connection before (never connected, refused, lost).
C1_DisconnectedTickRejected ==
    (TickGuarded /\ ~tickConn)
      => (tickState = "returned" /\ ret = FALSE /\ tickPubs = <<>>)

\* C1 witness: a tick of a run is rejected after the connection was lost
C1_Witness ==
    /\ tickState = "returned" /\ ~tickConn /\ ret = FALSE
    /\ session = "down" /\ runState = "running" /\ Len(sensors) > 0

\* C2 (as claimed): a tick that starts connected publishes exactly once per
\* roster sensor, in roster order, to the topic of that sensor; with 3 sensors
\* and gateway id gw-test these are the three documented topics.
C2_OneOrderedPublishPerSensor ==
    /\ (TickGuarded /\ tickConn) => IsPrefix(tickPubs, RosterTopics)
    /\ (tickState \in { "returned", "raised" } /\ tickConn)
         => tickPubs = RosterTopics
    /\ (tickState = "returned" /\ tickConn /\ Len(sensors) = 3
          /\ gateway_id = "gw-test")
         => tickPubs = << "iot/gateway/gw-test/sensors/temperature/sensor-1",
                          "iot/gateway/gw-test/sensors/humidity/sensor-2",
                          "iot/gateway/gw-test/sensors/voltage/sensor-3" >>

\* C3: every exit of run (duration over, interrupt, error in the loop) has
\* called disconnect() exactly once, and no disconnect() call nor transport
\* teardown happens while the loop is still ticking.
C3_DisconnectOncePerRun ==
    /\ runState \in { "returned", "raised" } => discInRun = 1
    /\ InRunLoop => (discInRun = 0 /\ loopStops = 0 /\ sessDiscs = 0)
    /\ discInRun <= 1

\* C3 witness: run was left by an error raised in the loop, after one
\* disconnect() that tore the connection down
C3_Witness ==
    /\ runState = "raised" /\ exc = "error" /\ discInRun = 1
    /\ loopStops = 1 /\ sessDiscs = 1

\* the initial connection attempt has failed: client.connect raised, or the
\* broker answered connect()'s handshake with a non-zero result code
InitialConnectFailed ==
    client = "created" /\ session \in { "none", "refused" }

\* C4 (as claimed): once the initial connection attempt has failed, main()
\* never enters the run loop nor attempts a tick, and it returns non-zero.
C4_FailedConnectNeverRuns ==
    [][ (entry # "api" /\ InitialConnectFailed)
          => /\ ~(runState = "none" /\ runState' = "running")
             /\ ~(tickState' = "called" /\ tickState # "called")
             /\ status' # "returned_0" ]_vars

\* the elapsed times k * i for the k with k * i < d
TickTimes(d, i) ==
    LET n == (d + i - 1) \div i IN [ k \in 1..n |-> (k - 1) * i ]

\* C5 (as claimed): with a duration d > 0 and an interval i > 0, on the ideal
\* clock, a run that is not interrupted has started its ticks exactly at
\* 0, i, 2i, ... below d (ceil(d/i) of them) when it exits, and none at d or
\* later.
C5_TicksBelowDuration ==
    /\ (runState = "running" /\ DurationSet(duration))
         => \A k \in 1..Len(ticks) : ticks[k] < duration[1]
    /\ (runState \in { "returned", "raised" } /\ duration # <<>>
          /\ duration[1] > 0 /\ interval > 0 /\ intAt = "none")
         => /\ ticks = TickTimes(duration[1], interval)
            /\ discInRun = 1

\* C6: in a tick that started connected, every publish, whatever its outcome,
\* is followed by the next sensor of the roster; when the tick returns it has
\* published for the whole roster and returns True, and run counts the batch.
C6_PublishFailureTolerated ==
    [][ /\ (Len(tickPubs') = Len(tickPubs) + 1)
            => (pc' = "publish_sensor" /\ idx' = idx + 1 /\ exc' = exc
                  /\ tickState' = "running")
        /\ (tickState' = "returned" /\ tickConn')
            => (ret' = TRUE /\ failAt' <= Len(sensors)
                  /\ Len(tickPubs') = Len(sensors))
        /\ (pc = "publish_return" /\ caller = "run" /\ tickConn
              /\ pc' = "run_sleep" /\ ~(OpenEnded /\ count >= MaxOpenTicks))
            => count' = count + 1 ]_vars

\* C6 witness: the first publish of a tick failed, the tick went on over a
\* roster of three and returned True, and run counted it
C6_Witness ==
    /\ pc = "run_sleep" /\ tickState = "returned" /\ tickConn /\ ret
    /\ failAt = 1 /\ Len(sensors) = 3 /\ Len(tickPubs) = 3 /\ count = 1

\* C7 (as claimed): once connect() has succeeded and run has returned, the
\* background loop is stopped and the session closed.
C7_RunLeavesTransportDown ==
    (runState = "returned" /\ client = "created" /\ session # "none")
      => (~loop_running /\ session = "closed")

\* C8 (as claimed): once a disconnect() has completed, and until the next
\* connect(), no disconnect() performs a transport operation: neither
\* client.loop_stop() nor client.disconnect() is called again.
C8_DisconnectIdempotent ==
    [][ discDone
          => /\ loopStops' = loopStops \/ loopStops' = 0
             /\ sessDiscs' = sessDiscs \/ sessDiscs' = 0 ]_vars

\* the positions from run's finally clause to the return of run's caller
AfterLoop ==
    { "run_finally", "disconnect_guard", "disconnect_loop_stop",
      "disconnect_session", "disconnect_return", "idle", "exited" }

\* C9: a KeyboardInterrupt delivered inside the run loop, in a tick or in the
\* sleep, takes the thread to the finally clause; from then on no tick starts
\* and nothing is published, run returns normally and main() returns 0.
C9_InterruptStopsCleanly ==
    [][ /\ (intAt' # "none" /\ intAt = "none" /\ runState = "running")
            => pc' = "run_finally"
        /\ (intAt # "none" /\ runState = "running")
            => /\ ticks' = ticks /\ tickPubs' = tickPubs
               /\ tickState' = tickState
               /\ pc' \in AfterLoop
               /\ runState' \in { "running", "returned" }
               /\ status' \in { "none", "returned_0" }
               /\ runState' = "returned" => (discInRun' = 1 /\ exc' = "interrupt")
               /\ (runState' = "returned" /\ entry # "api")
                    => status' = "returned_0" ]_vars

\* C9 witness: main() returned 0 after an interrupt delivered in a tick
C9_Witness ==
    /\ status = "returned_0" /\ intAt = "tick" /\ runState = "returned"
    /\ tickState = "interrupted" /\ Len(tickPubs) > 0

\* C10 (as claimed): a run given any duration d >= 0 exits, interrupted or not.
C10_ConfiguredDurationTerminates ==
    (runState = "running" /\ duration # <<>> /\ duration[1] >= 0)
      ~> (runState # "running")

\* ------------------------------------------------ roster and reading claims

\* the fixed type list, as documented
DocumentedTypes ==
    << "temperature", "humidity", "voltage", "current", "power", "energy",
       "solar_irradiance", "wind_speed", "battery_level" >>

\* C11: the roster built for a requested count N >= 0 has exactly N sensors;
\* the sensor at 0-based index i has id sensor-(i+1) and location
\* zone-((i mod 3)+1); for i < 9 its type is the i-th entry of the fixed type
\* list (so for N <= 9 no type is repeated) and for i >= 9 its type is some
\* member of that list.
C11_RosterShape ==
    /\ Len(sensors) = num_sensors
    /\ \A k \in 1..Len(sensors) :
         /\ sensors[k].id = "sensor-" \o ToString(k)
         /\ sensors[k].location = "zone-" \o ToString(((k - 1) % 3) + 1)
         /\ k <= 9 => sensors[k].type = DocumentedTypes[k]
         /\ k > 9 =>
              \E j \in 1..Len(DocumentedTypes) :
                 sensors[k].type = DocumentedTypes[j]
    /\ num_sensors <= 9 =>
         \A k, l \in 1..Len(sensors) :
            sensors[k].type = sensors[l].type => k = l

\* C11 witness: a roster of ten sensors built by a later construction, whose
\* tenth sensor drew a type that the first nine already hold, in zone-1
C11_Witness ==
    /\ num_sensors = 10 /\ Len(sensors) = 10
    /\ sensors[10].type = "humidity"
    /\ sensors[10].id = "sensor-10" /\ sensors[10].location = "zone-1"

\* a direct call of the reading generator has returned a reading
ReadingProduced == reading # << >> /\ ~reading.raised

\* the documented table: << low, high >> in thousandths of the unit, and the
\* unit string; an unrecognized type has the last row
DocumentedInterval(type) ==
    CASE type = "temperature" -> << 18000, 30000 >>
      [] type = "humidity" -> << 30000, 70000 >>
      [] type = "voltage" -> << 220000, 240000 >>
      [] type = "current" -> << 500, 15000 >>
      [] type = "power" -> << 100000, 5000000 >>
      [] type = "energy" -> << 100, 50000 >>
      [] type = "wind_speed" -> << 0, 15000 >>
      [] type = "battery_level" -> << 20000, 95000 >>
      [] OTHER -> << 0, 100000 >>

DocumentedUnit(type) ==
    CASE type = "temperature" -> "°C"
      [] type = "humidity" -> "%"
      [] type = "voltage" -> "V"
      [] type = "current" -> "A"
      [] type = "power" -> "W"
      [] type = "energy" -> "kWh"
      [] type = "solar_irradiance" -> "W/m²"
      [] type = "wind_speed" -> "m/s"
      [] type = "battery_level" -> "%"
      [] OTHER -> "units"

\* C12: for every sensor type, and for a type that is none of the enumerated
\* ones, the reading produced carries exactly the documented unit of that type
\* ('units' for an unrecognized type) and a value inside the documented closed
\* interval of that type ([0, 100] for an unrecognized type); the solar
\* interval is the subject of C13.
C12_UnitAndInterval ==
    ReadingProduced =>
      /\ reading.unit = DocumentedUnit(reading.type)
      /\ reading.type # "solar_irradiance" =>
           /\ DocumentedInterval(reading.type)[1] <= reading.value
           /\ reading.value <= DocumentedInterval(reading.type)[2]

\* C12 witness: a sensor of an unrecognized type got the top of the generic
\* interval in the generic unit
C12_Witness ==
    /\ ReadingProduced /\ reading.type = "pressure"
    /\ reading.value = 100000 /\ reading.unit = "units"

\* a direct call has returned a reading for a solar-irradiance sensor
SolarProduced == ReadingProduced /\ reading.type = "solar_irradiance"

\* the hour the solar reading was generated at
SolarHour == reading.hour[1]

Daytime(hour) == 6 <= hour /\ hour <= 18

\* C13 (as claimed): for a solar-irradiance sensor and every hour in 0..23,
\* outside [6, 18] the value is exactly 0.0; inside it the value is never
\* negative and never exceeds the day-curve base of that hour plus 50.
C13_SolarWithinBasePlusNoise ==
    SolarProduced =>
      /\ ~Daytime(SolarHour) => reading.value = 0
      /\ Daytime(SolarHour) =>
           /\ reading.value >= 0
           /\ reading.value <= SolarBase(SolarHour) + 50000

\* C13 (amended): as above, but in daytime the value never exceeds the
\* day-curve base plus 50 by more than the half step 0.005 of the rounding to
\* two decimals.
C13_SolarWithinRoundedBound ==
    SolarProduced =>
      /\ ~Daytime(SolarHour) => reading.value = 0
      /\ Daytime(SolarHour) =>
           /\ reading.value >= 0
           /\ reading.value <= SolarBase(SolarHour) + 50000 + 5

\* C13 witness: at 10 o'clock the base is 519.615 and the noise 50; the sum
\* 569.615 is rounded up to 569.62
C13_Witness ==
    /\ SolarProduced /\ SolarHour = 10
    /\ reading.value = 569620
    /\ reading.value > SolarBase(SolarHour) + 50000

\* ------------------------------------------------ connection flag claims

\* this step hands one more message to client.publish
PublishIssued == Len(tickPubs') = Len(tickPubs) + 1

\* this step evaluates the guard of publish_sensor_data
GuardEvaluated ==
    pc = "publish_guard" /\ pc' \in { "publish_sensor", "publish_return" }

\* the connection was lost and no callback has set the flag since
FlagClearedByLoss == session = "down" /\ ~connected

\* C14 (as claimed): once an unsolicited disconnect has cleared the flag, no
\* publish call is issued until the flag is set again, the remaining sensors
\* of a tick already in progress included.
C14_NoPublishAfterLoss ==
    [][FlagClearedByLoss => ~PublishIssued]_vars

\* C14 (amended): once an unsolicited disconnect has cleared the flag, every
\* tick whose guard is evaluated before the flag is set again is rejected
\* without a publish call; the publish calls issued while the flag is clear all
\* belong to a tick whose guard had read the flag set.
C14_NoTickStartsAfterLoss ==
    [][/\ (session = "down" /\ ~leaked /\ GuardEvaluated)
           => (pc' = "publish_return" /\ ret' = FALSE /\ tickPubs' = << >>)
       /\ (~connected /\ PublishIssued)
           => (tickConn /\ tickState = "running")]_vars

\* C14 witness: the first tick of a run was published, the connection was
\* lost, and the second tick has been rejected
C14_Witness ==
    /\ runState = "running" /\ Len(ticks) = 2 /\ count = 1
    /\ FlagClearedByLoss /\ ~leaked
    /\ tickState = "returned" /\ ~tickConn /\ tickPubs = << >>
    /\ Len(sensors) > 0

\* C15 (as claimed): whenever connect() has returned True the connected flag
\* is true, so the first tick of the run that main() starts right after a
\* successful connect() publishes one message per sensor instead of being
\* rejected.
C15_ConnectedWhenConnectReturns ==
    /\ (pc = "main_branch" /\ ret) => connected
    /\ (entry # "api" /\ runState = "running" /\ Len(ticks) = 1
          /\ tickState = "returned")
         => (tickConn /\ Len(tickPubs) = Len(sensors))

\* C16 (as claimed): for every sensor type and every hour 0..23 the reading
\* generator returns a reading without raising, whether the program is run as
\* a script or its classes are imported by another program; consequently no
\* tick is aborted part-way by an error of the reading generator.
C16_ReadingNeverRaises ==
    /\ reading # << >> => ~reading.raised
    /\ tickState # "raised"

\* this step is taken by the thread that drives connect(), run(),
\* publish_sensor_data() and disconnect()
DrivingStep == pc' # pc \/ calls' # calls

\* this step sets the flag: _on_connect with rc 0, called by the loop of the
\* current client or by the loop of a client that connect() replaced
SetByOnConnect ==
    \/ session \in { "handshake", "rehandshake" } /\ session' = "up"
    \/ leaked /\ session' = session /\ ~DrivingStep

\* this step clears the flag: _on_disconnect, called on a lost connection, by
\* client.disconnect() closing an open one, or by a replaced client's loop
ClearedByOnDisconnect ==
    \/ session \in { "handshake", "rehandshake", "up", "refused" }
         /\ session' \in { "down", "closed" }
    \/ leaked /\ session' = session /\ ~DrivingStep

\* C17 (as claimed): after construction the connected flag is written only by
\* the transport callbacks (_on_connect sets it true only for result code 0,
\* _on_disconnect sets it false for any result code); connect(),
\* publish_sensor_data(), run() and disconnect() leave it unchanged.
C17_OperationsLeaveFlagUnchanged ==
    [][/\ (connected' /\ ~connected) => SetByOnConnect
       /\ (~connected' /\ connected) => ClearedByOnDisconnect
       /\ DrivingStep => connected' = connected]_vars

\* C17 (amended): the flag is written only by the callbacks, as above;
\* connect(), publish_sensor_data() and run() leave it unchanged, and
\* disconnect() changes it only by closing an open connection, whose
\* _on_disconnect callback clears it before client.disconnect() returns.
C17_FlagWrittenByCallbacksOnly ==
    [][/\ (connected' /\ ~connected) => SetByOnConnect
       /\ (~connected' /\ connected) => ClearedByOnDisconnect
       /\ (DrivingStep /\ pc # "disconnect_session")
            => connected' = connected
       /\ (DrivingStep /\ pc = "disconnect_session" /\ connected' # connected)
            => (~connected' /\ session' = "closed")]_vars

\* C17 witness: disconnect() found the flag set by _on_connect, stopped the
\* loop and closed the connection, and the flag is clear when it returns
C17_Witness ==
    /\ pc = "disconnect_return" /\ caller = "api"
    /\ loopStops = 1 /\ sessDiscs = 1
    /\ session = "closed" /\ ~connected /\ ~leaked

\* ------------------------------------------------------- object invariants

\* C18: the sensor roster (its length, its order and every sensor's id, type
\* and location) and the gateway id stay what construction made them, whatever
\* sequence of connect, tick, run and disconnect operations and of transport
\* callbacks follows.
C18_RosterAndGatewayIdFixed ==
    [][/\ sensors' = sensors
       /\ gateway_id' = gateway_id
       /\ Len(sensors') = num_sensors']_vars

\* C18 witness: a run of two counted ticks over a roster of three sensors has
\* returned and disconnected, and the roster is the one construction built
C18_Witness ==
    /\ runState = "returned" /\ count = 2 /\ discDone
    /\ gateway_id = "gw-test" /\ Len(sensors) = 3
    /\ sensors[1].id = "sensor-1" /\ sensors[2].type = "humidity"
    /\ sensors[3].location = "zone-3"

\* C19: whenever the connected flag is true the client handle exists, and
\* neither publish_sensor_data nor disconnect invokes an operation on a
\* missing client, in any order of calls and callbacks.
C19_ClientExistsWhenUsed ==
    /\ connected => client = "created"
    /\ (pc = "publish_sensor" /\ idx <= Len(sensors)) => client = "created"
    /\ pc \in { "disconnect_loop_stop", "disconnect_session" }
         => client = "created"

\* C19 witness: the flag was set by the loop of a client that a failed
\* connect() replaced; the tick passed its guard and has published on the
\* current client, which never opened a connection
C19_Witness ==
    /\ connected /\ leaked /\ session = "none" /\ client = "created"
    /\ pc = "publish_sensor" /\ tickConn /\ Len(tickPubs) >= 1
====
